---------------------------- MODULE Spec2Model ----------------------------
(***************************************************************************)
(* Ultrasonic theremin: the server's MQTT handler (server.py), the audio  *)
(* engine's shared parameters and its real-time callback                   *)
(* (audio_engine.py), and the Raspberry Pi sensing loop (rpi/sensors.py).  *)
(*                                                                         *)
(* Numbers the code holds as Python floats are modelled as exact           *)
(* rationals <<n, d>> in lowest terms with d > 0; float rounding is not    *)
(* modelled.                                                               *)
(***************************************************************************)
EXTENDS Integers, Sequences, FiniteSets, TLC

(***************************************************************************)
(* Exact rational arithmetic.                                              *)
(***************************************************************************)
Abs(x) == IF x < 0 THEN -x ELSE x

RECURSIVE GCD(_, _)
GCD(a, b) == IF b = 0 THEN a ELSE GCD(b, a % b)

Rat(n, d) ==
    LET s == IF d < 0 THEN -1 ELSE 1
        g == GCD(Abs(n), Abs(d))
    IN  <<(s * n) \div g, (s * d) \div g>>

I(n) == <<n, 1>>

RAdd(x, y) == Rat(x[1] * y[2] + y[1] * x[2], x[2] * y[2])
RSub(x, y) == Rat(x[1] * y[2] - y[1] * x[2], x[2] * y[2])
RMul(x, y) == Rat(x[1] * y[1], x[2] * y[2])
RDiv(x, y) == Rat(x[1] * y[2], x[2] * y[1])
RLe(x, y) == x[1] * y[2] <= y[1] * x[2]
RLt(x, y) == x[1] * y[2] < y[1] * x[2]

(***************************************************************************)
(* server.py configuration.                                                *)
(***************************************************************************)
DISTANCE_MIN == 2
DISTANCE_MAX == 25
BUFFER_MIN == 0
BUFFER_MAX == 27
FREQ_MIN == 256
FREQ_MAX == 1024

(***************************************************************************)
(* audio_engine.py configuration.  CHUNK_DURATION is 0.05 s.               *)
(***************************************************************************)
SAMPLE_RATE == 44100
CHUNK_DURATION == <<1, 20>>

\* int(SAMPLE_RATE * duration): truncation of a non-negative product.
NumSamplesCeil(duration) ==
    (SAMPLE_RATE * duration[1] + duration[2] - 1) \div duration[2]

NumSamples(duration) == (SAMPLE_RATE * duration[1]) \div duration[2]

CHUNK_SIZE == NumSamples(CHUNK_DURATION)

(***************************************************************************)
(* float(msg.payload.decode()): a payload is a sequence of characters.     *)
(* The decimal grammar [sign] digits [. digits] with at least one digit is *)
(* accepted; anything else over the modelled alphabet raises ValueError.   *)
(***************************************************************************)
DigitChars == <<"0", "1", "2", "3", "4", "5", "6", "7", "8", "9">>

IsDigit(c) == \E i \in 1..10 : DigitChars[i] = c

DigitVal(c) == (CHOOSE i \in 1..10 : DigitChars[i] = c) - 1

AllDigits(s) == \A i \in 1..Len(s) : IsDigit(s[i])

RECURSIVE DigitsValue(_)
DigitsValue(s) ==
    IF s = <<>> THEN 0
    ELSE 10 * DigitsValue(SubSeq(s, 1, Len(s) - 1)) + DigitVal(s[Len(s)])

RECURSIVE Pow10(_)
Pow10(k) == IF k = 0 THEN 1 ELSE 10 * Pow10(k - 1)

ParseFloatLenient(s) ==
    LET ds == SelectSeq(s, IsDigit)
    IN  [ok |-> TRUE, value |-> I(DigitsValue(ds))]

ParseFloat(s) ==
    LET signed == s # <<>> /\ s[1] \in {"-", "+"}
        sign == IF signed /\ s[1] = "-" THEN -1 ELSE 1
        body == IF signed THEN Tail(s) ELSE s
        dots == {i \in 1..Len(body) : body[i] = "."}
        dot == IF dots = {} THEN Len(body) + 1 ELSE CHOOSE i \in dots : TRUE
        whole == SubSeq(body, 1, dot - 1)
        frac == SubSeq(body, dot + 1, Len(body))
        wellFormed == /\ Cardinality(dots) <= 1
                      /\ AllDigits(whole)
                      /\ AllDigits(frac)
                      /\ Len(whole) + Len(frac) >= 1
    IN  IF wellFormed
        THEN [ok |-> TRUE,
              value |-> Rat(sign * DigitsValue(whole \o frac), Pow10(Len(frac)))]
        ELSE [ok |-> FALSE, value |-> I(0)]

(***************************************************************************)
(* on_message, sensors/distance branch: the distance-to-frequency mapping. *)
(***************************************************************************)
DistanceToFrequencyDirect(d) ==
    LET normalized == RDiv(RSub(d, I(DISTANCE_MIN)), I(DISTANCE_MAX - DISTANCE_MIN))
    IN  RAdd(I(FREQ_MIN), RMul(I(FREQ_MAX - FREQ_MIN), normalized))

DistanceToFrequencySignSlip(d) ==
    LET normalized == RDiv(RSub(d, I(DISTANCE_MIN)), I(DISTANCE_MAX - DISTANCE_MIN))
    IN  RSub(I(FREQ_MIN), RMul(I(FREQ_MAX - FREQ_MIN), RSub(I(1), normalized)))

DistanceToFrequency(d) ==
    LET normalized == RDiv(RSub(d, I(DISTANCE_MIN)), I(DISTANCE_MAX - DISTANCE_MIN))
    IN  RAdd(I(FREQ_MIN), RMul(I(FREQ_MAX - FREQ_MIN), RSub(I(1), normalized)))

\* Which branch of the if/elif chain runs for a distance.
BandUpperUnbounded(d) ==
    IF RLe(I(DISTANCE_MIN), d) /\ RLe(d, I(DISTANCE_MAX)) THEN "in_range"
    ELSE IF RLe(I(DISTANCE_MAX), d) THEN "upper"
    ELSE IF RLe(I(BUFFER_MIN), d) /\ RLe(d, I(DISTANCE_MIN)) THEN "lower"
    ELSE "silent"

BandUpperFirst(d) ==
    IF RLe(I(DISTANCE_MAX), d) /\ RLe(d, I(BUFFER_MAX)) THEN "upper"
    ELSE IF RLe(I(DISTANCE_MIN), d) /\ RLe(d, I(DISTANCE_MAX)) THEN "in_range"
    ELSE IF RLe(I(BUFFER_MIN), d) /\ RLe(d, I(DISTANCE_MIN)) THEN "lower"
    ELSE "silent"

Band(d) ==
    IF RLe(I(DISTANCE_MIN), d) /\ RLe(d, I(DISTANCE_MAX)) THEN "in_range"
    ELSE IF RLe(I(DISTANCE_MAX), d) /\ RLe(d, I(BUFFER_MAX)) THEN "upper"
    ELSE IF RLe(I(BUFFER_MIN), d) /\ RLe(d, I(DISTANCE_MIN)) THEN "lower"
    ELSE "silent"

\* The branch of on_message's if/elif chain on the topic.
BranchAnySensor(topic) ==
    IF topic \in {"sensors/distance", "sensors/volume"} THEN "distance"
    ELSE IF topic = "control/status" THEN "status"
    ELSE "other"

Branch(topic) ==
    IF topic = "sensors/distance" THEN "distance"
    ELSE IF topic = "sensors/volume" THEN "volume"
    ELSE IF topic = "control/status" THEN "status"
    ELSE "other"

\* The server globals after the sensors/distance branch has run for a value.
MapDistanceNoClamp(value) ==
    LET b == Band(value)
    IN  IF b = "silent"
        THEN [distance |-> value, frequency |-> I(0), playing |-> FALSE, band |-> b]
        ELSE [distance |-> value, frequency |-> DistanceToFrequency(value),
              playing |-> TRUE, band |-> b]

MapDistanceKeepReceived(value) ==
    LET b == Band(value)
        clamped == CASE b = "upper" -> I(25)
                     [] b = "lower" -> I(2)
                     [] OTHER -> value
    IN  IF b = "silent"
        THEN [distance |-> value, frequency |-> I(0), playing |-> FALSE, band |-> b]
        ELSE [distance |-> value, frequency |-> DistanceToFrequency(clamped),
              playing |-> TRUE, band |-> b]

MapDistance(value) ==
    LET b == Band(value)
        stored == CASE b = "upper" -> I(25)
                    [] b = "lower" -> I(2)
                    [] OTHER -> value
    IN  IF b = "silent"
        THEN [distance |-> stored, frequency |-> I(0), playing |-> FALSE, band |-> b]
        ELSE [distance |-> stored, frequency |-> DistanceToFrequency(stored),
              playing |-> TRUE, band |-> b]

(***************************************************************************)
(* audio_engine.py: buffers.  A buffer is described by its length and by   *)
(* what generated it; a tone's samples are volume * (sum of harmonics of   *)
(* frequency) / (sum of amplitudes), so they are all zero when the volume  *)
(* or the frequency is zero.                                               *)
(***************************************************************************)
GenerateTone(frequency, volume, duration) ==
    [len |-> NumSamples(duration), kind |-> "tone",
     frequency |-> frequency, volume |-> volume]

\* np.zeros((frames, 1)) of the except clause.
ExceptSilenceChunkSized(frames) ==
    [len |-> CHUNK_SIZE, kind |-> "zeros", frequency |-> I(0), volume |-> I(0)]

ExceptSilence(frames) ==
    [len |-> frames, kind |-> "zeros", frequency |-> I(0), volume |-> I(0)]

Unfilled == [len |-> 0, kind |-> "unfilled", frequency |-> I(0), volume |-> I(0)]

AllZero(buf) ==
    \/ buf.kind = "zeros"
    \/ buf.kind = "tone" /\ (buf.volume = I(0) \/ buf.frequency = I(0))

GenerateSilenceOnes(duration) ==
    [len |-> NumSamples(duration), kind |-> "ones",
     frequency |-> I(0), volume |-> I(0)]

GenerateSilence(duration) ==
    [len |-> NumSamples(duration), kind |-> "zeros",
     frequency |-> I(0), volume |-> I(0)]

\* The test "is_playing and current_frequency > 0" of audio_callback.
ShouldPlay(playing, frequency) == playing /\ RLt(I(0), frequency)

\* Exceptions the modelled calls raise; all are subclasses of Exception, which
\* is what both except clauses name.
ExceptionKinds == {"ValueError", "MemoryError", "RuntimeError"}

CaughtByExceptException(kind) == kind \in ExceptionKinds

(***************************************************************************)
(* rpi/sensors.py.  A value that may be None is <<>> (None) or <<x>>.      *)
(***************************************************************************)
FILTER_WINDOW_SIZE == 5

\* The divisor 1023.0 of get_volume.
POT_FULL_SCALE == 1023

None == <<>>

Some(x) == <<x>>

\* distance_buffer.append(raw) on a deque(maxlen=FILTER_WINDOW_SIZE).
DequeAppendKeepOldest(buf, x) ==
    IF Len(buf) >= FILTER_WINDOW_SIZE THEN buf ELSE Append(buf, x)

DequeAppend(buf, x) ==
    IF Len(buf) >= FILTER_WINDOW_SIZE THEN Append(Tail(buf), x) ELSE Append(buf, x)

RECURSIVE SumSeq(_)
SumSeq(q) == IF q = <<>> THEN 0 ELSE Head(q) + SumSeq(Tail(q))

\* sum(distance_buffer) / float(len(distance_buffer)), or the raw sample when
\* the buffer is empty.
MovingAverage(buf, raw) ==
    IF Len(buf) > 0 THEN Rat(SumSeq(buf), Len(buf)) ELSE I(raw)

\* pot_value / 1023.0
NormalizeVolume8Bit(pot) == Rat(pot, 255)

NormalizeVolume(pot) == Rat(pot, POT_FULL_SCALE)

\* "distance is not None and volume is not None"
ShouldPublishEither(d, v) == d # None \/ v # None

ShouldPublish(d, v) == d # None /\ v # None

\* mqtt_client.publish(topic, str(x)).  The text str() produces is not
\* modelled: the payload is kept as the value str() was given.
Publication(topic, x) == [topic |-> topic, payload |-> [str |-> x]]

(***************************************************************************)
(* Inputs.                                                                 *)
(***************************************************************************)
\* What grovepi.ultrasonicRead returns (cm), and what grovepi.analogRead
\* returns; either call may instead raise.
RawDistances == {3, 10, 40}

PotValues == {0, 512, 1023, 1024}

\* Bound on the number of sensing cycles in one behaviour.
MaxCycles == 6

Topics == {"sensors/distance", "sensors/volume", "control/status"}

NumericPayloads ==
    { <<"-", "1">>, <<"0">>, <<"2">>, <<"1", "3", ".", "5">>, <<"2", "5">>,
      <<"2", "7">>, <<"2", "8">> }

MalformedPayloads == { <<"a", "b", "c">>, <<"1", ".", "2", ".", "3">> }

Payloads == NumericPayloads \cup MalformedPayloads

\* Frame counts the audio subsystem may request.
FrameCounts == {CHUNK_SIZE, 512}

\* Bound on the number of bus messages delivered in one behaviour.
MaxMessages == 2

(***************************************************************************)
(* State.                                                                  *)
(***************************************************************************)
VARIABLES
    \* server.py globals
    current_distance, current_volume, current_frequency, is_playing,
    \* on_message: the message being (or last) handled, its local value (<<>>
    \* when float() raised, else <<x>>), the number of messages
    \* delivered so far, how the handler ended for the last one ("dropped" and
    \* "emit_failed" are its except clause's log line), the if/elif branch it took, the
    \* mqtt thread's position, whether an exception left the handler, and
    \* whether the handler has set is_playing to True so far
    msg, value, n_messages, outcome, band, mqtt_pc, mqtt_escaped, gate_opened,
    \* audio_engine.py globals, each with the number of the message whose
    \* update_audio_params call wrote it (0: the module's initial value)
    ae_current_frequency, ae_current_volume, ae_is_playing,
    \* audio_callback: position, requested frames, the values its reads of
    \* the globals returned, the output buffer, the error the except clause
    \* logged, and whether an exception left the callback
    cb_pc, frames, cb_playing, cb_test_frequency, cb_frequency, cb_volume,
    outdata, cb_error, cb_escaped,
    \* sensors.py: the filter's deque; every raw distance read so far that
    \* succeeded, in arrival order; main's position in the current cycle and
    \* its locals; get_volume's pot_value; the messages published in the
    \* current cycle; the number of finished cycles; the number of calls of
    \* each sensor read in the current cycle
    distance_buffer, reads, sensor_pc, distance, volume, pot_value, published,
    n_cycles, distance_reads, pot_reads,
    \* server.py dashboard: what the last handler, tick or connection emitted
    \* and from where; whether the background_broadcast thread is running
    emitted, broadcast_alive,
    \* audio_engine.py stream: the global audio_stream ("None" or "stream"),
    \* the state of the device stream behind it, the calls made on it, and
    \* the number of calls of stop_audio_stream
    audio_stream, stream_state, device_calls, stop_calls,
    \* server.py process: where the main thread is, and the state of the
    \* connection the mqtt thread holds to the broker
    server_pc, mqtt_link,
    \* audio_engine.py generators called on their own: the arguments of the
    \* last call and the two buffers returned
    gen_frequency, gen_volume, gen_duration, gen_tone, gen_silence,
    \* test_server.py: mock_time, the audio_state payload of the last loop
    \* iteration, and the events that iteration emitted
    mock_time, mock_audio_state, mock_emitted

serverVars == <<current_distance, current_volume, current_frequency, is_playing>>
handlerVars == <<msg, value, n_messages, outcome, band, mqtt_pc, mqtt_escaped,
                 gate_opened>>
engineVars == <<ae_current_frequency, ae_current_volume, ae_is_playing>>
callbackVars == <<cb_pc, frames, cb_playing, cb_test_frequency, cb_frequency,
                  cb_volume, outdata, cb_error, cb_escaped>>

sensorVars == <<distance_buffer, reads, sensor_pc, distance, volume, pot_value,
                published, n_cycles, distance_reads, pot_reads>>

streamVars == <<audio_stream, stream_state, device_calls, stop_calls>>

procVars == <<server_pc, mqtt_link>>

genVars == <<gen_frequency, gen_volume, gen_duration, gen_tone, gen_silence>>

mockVars == <<mock_time, mock_audio_state, mock_emitted>>

restVars == <<broadcast_alive, streamVars, procVars, genVars, mockVars>>

vars == <<serverVars, handlerVars, engineVars, callbackVars, sensorVars, emitted,
          restVars>>

\* What one handler, tick or connection emitted on the dashboard channel.
Emission(by, events) == [by |-> by, events |-> events]

\* A global of the audio engine: its value and the update that wrote it.
Cell(v, n) == [val |-> v, ver |-> n]

NoRead == Cell(I(0), -1)

\* The variables other than the stream's and the process's, as the modules
\* set them on import.
InitData ==
    /\ current_distance = I(0)
    /\ current_volume = <<1, 2>>
    /\ current_frequency = I(0)
    /\ is_playing = FALSE
    /\ msg = [topic |-> "none", payload |-> <<>>]
    /\ value = None
    /\ n_messages = 0
    /\ outcome = "none"
    /\ band = "none"
    /\ mqtt_pc = "idle"
    /\ mqtt_escaped = FALSE
    /\ gate_opened = FALSE
    /\ ae_current_frequency = Cell(I(440), 0)
    /\ ae_current_volume = Cell(<<1, 2>>, 0)
    /\ ae_is_playing = Cell(FALSE, 0)
    /\ cb_pc = "idle"
    /\ frames = 0
    /\ cb_playing = Cell(FALSE, -1)
    /\ cb_test_frequency = NoRead
    /\ cb_frequency = NoRead
    /\ cb_volume = NoRead
    /\ outdata = Unfilled
    /\ cb_error = "none"
    /\ cb_escaped = FALSE
    /\ distance_buffer = <<>>
    /\ reads = <<>>
    /\ sensor_pc = "read_distance"
    /\ distance = None
    /\ volume = None
    /\ pot_value = None
    /\ published = <<>>
    /\ n_cycles = 0
    /\ distance_reads = 0
    /\ pot_reads = 0
    /\ emitted = Emission("none", <<>>)
    /\ gen_frequency = I(440)
    /\ gen_volume = <<1, 2>>
    /\ gen_duration = CHUNK_DURATION
    /\ gen_tone = Unfilled
    /\ gen_silence = Unfilled
    /\ mock_time = I(0)
    /\ mock_audio_state = None
    /\ mock_emitted = <<>>

\* The server up and running: init_audio has started the stream, the
\* broadcast thread runs, the main thread is in socketio.run.
Init ==
    /\ InitData
    /\ broadcast_alive = TRUE
    /\ audio_stream = "stream"
    /\ stream_state = "active"
    /\ device_calls = <<"start">>
    /\ stop_calls = 0
    /\ server_pc = "running"
    /\ mqtt_link = "connected"

(***************************************************************************)
(* server.py on_message.  The mqtt thread runs the handler for one message *)
(* at a time.  The step below is the handler up to the call of             *)
(* update_audio_params; the three stores of that call are the next three   *)
(* steps, because the audio callback runs on another thread between them.  *)
(* emit: "ok", or the exception socketio.emit raises in broadcast_state.   *)
(***************************************************************************)
OnMessage(topic, payload, emit) ==
    LET parsed == ParseFloat(payload)
        m == MapDistance(parsed.value)
        raised == IF ~parsed.ok THEN "ValueError" ELSE emit
    IN  /\ mqtt_pc = "idle"
        /\ ~mqtt_escaped
        /\ server_pc # "exited"
        /\ n_messages < MaxMessages
        /\ msg' = [topic |-> topic, payload |-> payload]
        /\ value' = IF parsed.ok THEN Some(parsed.value) ELSE None
        /\ n_messages' = n_messages + 1
        /\ IF ~parsed.ok
           THEN UNCHANGED <<serverVars, band>>
           ELSE CASE Branch(topic) = "distance" ->
                       /\ current_distance' = m.distance
                       /\ current_frequency' = m.frequency
                       /\ is_playing' = m.playing
                       /\ band' = m.band
                       /\ UNCHANGED current_volume
                  [] Branch(topic) = "volume" ->
                       /\ current_volume' = parsed.value
                       /\ band' = "none"
                       /\ UNCHANGED <<current_distance, current_frequency, is_playing>>
                  [] OTHER ->
                       /\ band' = "none"
                       /\ UNCHANGED serverVars
        /\ gate_opened' = (gate_opened \/ is_playing')
        /\ IF raised = "ok"
           THEN /\ outcome' = "handled"
                /\ emitted' = Emission("on_message", <<"audio_state">>)
                /\ mqtt_pc' = "store_frequency"
                /\ UNCHANGED mqtt_escaped
           ELSE /\ outcome' = IF parsed.ok THEN "emit_failed" ELSE "dropped"
                /\ emitted' = Emission("none", <<>>)
                /\ mqtt_pc' = "idle"
                /\ mqtt_escaped' = ~CaughtByExceptException(raised)
        /\ UNCHANGED <<engineVars, callbackVars, sensorVars, restVars>>

\* audio_engine.py update_audio_params(current_frequency, current_volume, is_playing)
StoreFrequency ==
    /\ mqtt_pc = "store_frequency"
    /\ server_pc # "exited"
    /\ ae_current_frequency' = Cell(current_frequency, n_messages)
    /\ mqtt_pc' = "store_volume"
    /\ UNCHANGED <<serverVars, msg, value, n_messages, outcome, band, mqtt_escaped,
                   gate_opened,
                   ae_current_volume, ae_is_playing, callbackVars, sensorVars, emitted,
                   restVars>>

StoreVolume ==
    /\ mqtt_pc = "store_volume"
    /\ server_pc # "exited"
    /\ ae_current_volume' = Cell(current_volume, n_messages)
    /\ mqtt_pc' = "store_is_playing"
    /\ UNCHANGED <<serverVars, msg, value, n_messages, outcome, band, mqtt_escaped,
                   gate_opened,
                   ae_current_frequency, ae_is_playing, callbackVars, sensorVars, emitted,
                   restVars>>

StoreIsPlaying ==
    /\ mqtt_pc = "store_is_playing"
    /\ server_pc # "exited"
    /\ ae_is_playing' = Cell(is_playing, n_messages)
    /\ mqtt_pc' = "idle"
    /\ UNCHANGED <<serverVars, msg, value, n_messages, outcome, band, mqtt_escaped,
                   gate_opened,
                   ae_current_frequency, ae_current_volume, callbackVars, sensorVars, emitted,
                   restVars>>

(***************************************************************************)
(* audio_engine.py audio_callback, on the audio subsystem's thread.  Each  *)
(* read of a global is a step of its own.                                  *)
(***************************************************************************)
CbEnter(n) ==
    /\ cb_pc = "idle"
    /\ ~cb_escaped
    /\ frames' = n
    /\ outdata' = Unfilled
    /\ cb_error' = "none"
    /\ cb_pc' = "test_is_playing"
    /\ UNCHANGED <<serverVars, handlerVars, engineVars, sensorVars, emitted, restVars, cb_playing,
                   cb_test_frequency, cb_frequency, cb_volume, cb_escaped>>

CbTestIsPlaying ==
    /\ cb_pc = "test_is_playing"
    /\ cb_playing' = ae_is_playing
    /\ cb_pc' = IF ae_is_playing.val THEN "test_frequency" ELSE "produce"
    /\ UNCHANGED <<serverVars, handlerVars, engineVars, sensorVars, emitted, restVars, frames, cb_test_frequency,
                   cb_frequency, cb_volume, outdata, cb_error, cb_escaped>>

CbTestFrequency ==
    /\ cb_pc = "test_frequency"
    /\ cb_test_frequency' = ae_current_frequency
    /\ cb_pc' = IF RLt(I(0), ae_current_frequency.val) THEN "load_frequency"
                ELSE "produce"
    /\ UNCHANGED <<serverVars, handlerVars, engineVars, sensorVars, emitted, restVars, frames, cb_playing,
                   cb_frequency, cb_volume, outdata, cb_error, cb_escaped>>

CbLoadFrequency ==
    /\ cb_pc = "load_frequency"
    /\ cb_frequency' = ae_current_frequency
    /\ cb_pc' = "load_volume"
    /\ UNCHANGED <<serverVars, handlerVars, engineVars, sensorVars, emitted, restVars, frames, cb_playing,
                   cb_test_frequency, cb_volume, outdata, cb_error, cb_escaped>>

CbLoadVolume ==
    /\ cb_pc = "load_volume"
    /\ cb_volume' = ae_current_volume
    /\ cb_pc' = "produce"
    /\ UNCHANGED <<serverVars, handlerVars, engineVars, sensorVars, emitted, restVars, frames, cb_playing,
                   cb_test_frequency, cb_frequency, outdata, cb_error, cb_escaped>>

\* The rest of the try block and the except clause, and the return, where the
\* callback's locals end.  fault: "none", or the exception an internal failure
\* raises while producing or copying the chunk.
CbProduce(fault) ==
    LET tone == ShouldPlay(cb_playing.val, cb_test_frequency.val)
        chunk == IF tone
                 THEN GenerateTone(cb_frequency.val, cb_volume.val, CHUNK_DURATION)
                 ELSE GenerateSilence(CHUNK_DURATION)
        raised == IF fault # "none" THEN fault
                  ELSE IF chunk.len # frames THEN "ValueError"
                  ELSE "none"
    IN  /\ cb_pc = "produce"
        /\ IF raised = "none"
           THEN outdata' = chunk /\ UNCHANGED <<cb_error, cb_escaped>>
           ELSE IF CaughtByExceptException(raised)
           THEN /\ outdata' = ExceptSilence(frames)
                /\ cb_error' = raised
                /\ UNCHANGED cb_escaped
           ELSE cb_escaped' = TRUE /\ UNCHANGED <<outdata, cb_error>>
        /\ cb_playing' = Cell(FALSE, -1)
        /\ cb_test_frequency' = NoRead
        /\ cb_frequency' = NoRead
        /\ cb_volume' = NoRead
        /\ cb_pc' = "idle"
        /\ UNCHANGED <<serverVars, handlerVars, engineVars, sensorVars, emitted, restVars, frames>>

(***************************************************************************)
(* rpi/sensors.py main: one sensing cycle is get_filtered_distance(),      *)
(* get_volume(), the conditional publish, and the sleep.                   *)
(***************************************************************************)
\* get_filtered_distance.  raw: what ultrasonicRead returned, or <<>> when it
\* raised (the except clause returns None).
ReadDistance(raw) ==
    /\ sensor_pc = "read_distance"
    /\ n_cycles < MaxCycles
    /\ distance_reads' = distance_reads + 1
    /\ IF raw = None
       THEN /\ distance' = None
            /\ UNCHANGED <<distance_buffer, reads>>
       ELSE /\ distance_buffer' = DequeAppend(distance_buffer, raw[1])
            /\ reads' = Append(reads, raw[1])
            /\ distance' = Some(MovingAverage(distance_buffer', raw[1]))
    /\ sensor_pc' = "read_volume"
    /\ UNCHANGED <<serverVars, handlerVars, engineVars, callbackVars, emitted, restVars, volume,
                   pot_value, published, n_cycles, pot_reads>>

\* get_volume.  pot: what analogRead returned, or <<>> when it raised.
ReadVolume(pot) ==
    /\ sensor_pc = "read_volume"
    /\ pot_reads' = pot_reads + 1
    /\ pot_value' = pot
    /\ volume' = IF pot = None THEN None ELSE Some(NormalizeVolume(pot[1]))
    /\ sensor_pc' = "publish"
    /\ UNCHANGED <<serverVars, handlerVars, engineVars, callbackVars, emitted, restVars,
                   distance_buffer, reads, distance, published, n_cycles,
                   distance_reads>>

Publish ==
    /\ sensor_pc = "publish"
    /\ published' =
          IF ShouldPublish(distance, volume)
          THEN <<Publication("sensors/distance", distance),
                 Publication("sensors/volume", volume)>>
          ELSE published
    /\ sensor_pc' = "sleep"
    /\ UNCHANGED <<serverVars, handlerVars, engineVars, callbackVars, emitted, restVars,
                   distance_buffer, reads, distance, volume, pot_value, n_cycles,
                   distance_reads, pot_reads>>

\* time.sleep(sleep_time), and back to the top of the while loop.
Sleep ==
    /\ sensor_pc = "sleep"
    /\ n_cycles' = n_cycles + 1
    /\ published' = <<>>
    /\ distance_reads' = 0
    /\ pot_reads' = 0
    /\ sensor_pc' = "read_distance"
    /\ UNCHANGED <<serverVars, handlerVars, engineVars, callbackVars, emitted, restVars,
                   distance_buffer, reads, distance, volume, pot_value>>

SensorNext ==
    \/ \E raw \in {Some(r) : r \in RawDistances} \cup {None} : ReadDistance(raw)
    \/ \E pot \in {Some(v) : v \in PotValues} \cup {None} : ReadVolume(pot)
    \/ Publish
    \/ Sleep

SensorSpec == Init /\ [][SensorNext]_vars

Next ==
    \/ \E t \in Topics, p \in Payloads, e \in {"ok", "RuntimeError"} : OnMessage(t, p, e)
    \/ StoreFrequency
    \/ StoreVolume
    \/ StoreIsPlaying
    \/ \E n \in FrameCounts : CbEnter(n)
    \/ CbTestIsPlaying
    \/ CbTestFrequency
    \/ CbLoadFrequency
    \/ CbLoadVolume
    \/ \E f \in {"none", "MemoryError"} : CbProduce(f)

Spec == Init /\ [][Next]_vars

(***************************************************************************)
(* Properties of the server and the audio engine, checked under Spec.      *)
(***************************************************************************)
\* The step just taken delivered a bus message to on_message.
Delivered == n_messages' = n_messages + 1

\* The last message delivered was a sensors/distance message with a numeric
\* payload, and its parsed value.
DistanceHandled ==
    /\ msg.topic = "sensors/distance"
    /\ value # None

MsgValue == value[1]

InRange(d) == RLe(I(DISTANCE_MIN), d) /\ RLe(d, I(DISTANCE_MAX))

\* The updates that wrote the values the running callback has read from the
\* engine's globals so far.
CbReadVersions ==
    {v \in {cb_playing.ver, cb_test_frequency.ver, cb_frequency.ver, cb_volume.ver} :
        v >= 0}

\* C2: the values one run of the audio callback reads from the engine's
\* globals to produce its buffer were all written by the same
\* update_audio_params call, or are all initial values.
C2_NoTornRead ==
    cb_pc = "produce" => Cardinality(CbReadVersions) = 1

\* A run of the callback that produces a tone from the frequency of one update
\* and the gate and volume of the update before it.
C2_TornTone ==
    /\ cb_pc = "produce"
    /\ cb_playing.val
    /\ cb_frequency.ver = 2
    /\ cb_playing.ver = 1
    /\ cb_volume.ver = 1

\* C3: a sensors/distance message with DISTANCE_MIN <= d <= DISTANCE_MAX
\* leaves is_playing true and
\*   frequency = FREQ_MIN + (FREQ_MAX - FREQ_MIN) * (1 - (d - DISTANCE_MIN) / (DISTANCE_MAX - DISTANCE_MIN)),
\* stated here cross-multiplied over the integers; the frequency is FREQ_MAX
\* at DISTANCE_MIN, FREQ_MIN at DISTANCE_MAX, 640 at 13.5, and of two
\* consecutive in-range messages the one with the larger distance gets the
\* strictly smaller frequency.
C3_Mapping ==
    (DistanceHandled /\ InRange(MsgValue)) =>
        LET d == MsgValue
            f == current_frequency
            span == DISTANCE_MAX - DISTANCE_MIN
        IN  /\ is_playing
            /\ f[1] * span * d[2] =
                 f[2] * (FREQ_MIN * span * d[2]
                         + (FREQ_MAX - FREQ_MIN) * (DISTANCE_MAX * d[2] - d[1]))
            /\ (d = I(DISTANCE_MIN) => f = I(FREQ_MAX))
            /\ (d = I(DISTANCE_MAX) => f = I(FREQ_MIN))
            /\ (d = <<27, 2>> => f = I(640))

C3_Decreasing ==
    (/\ Delivered
     /\ DistanceHandled /\ InRange(MsgValue)
     /\ DistanceHandled' /\ InRange(MsgValue')
     /\ RLt(MsgValue, MsgValue'))
        => RLt(current_frequency', current_frequency)

C3_InRangeFrequency == []C3_Mapping /\ [][C3_Decreasing]_vars

C3_Midpoint ==
    /\ DistanceHandled
    /\ MsgValue = <<27, 2>>
    /\ current_frequency = I(640)
    /\ is_playing

\* C4: a sensors/distance message with d < BUFFER_MIN or d > BUFFER_MAX leaves
\* frequency = 0 and is_playing false, whatever the state was before.
C4_OutsideSilent ==
    (/\ DistanceHandled
     /\ (RLt(MsgValue, I(BUFFER_MIN)) \/ RLt(I(BUFFER_MAX), MsgValue)))
        => current_frequency = I(0) /\ ~is_playing

\* The gate was open (the engine still holds the previous update) when the
\* out-of-band distance arrived.
C4_SilencedWhilePlaying ==
    /\ DistanceHandled
    /\ RLt(I(BUFFER_MAX), MsgValue)
    /\ ~is_playing
    /\ current_frequency = I(0)
    /\ ae_is_playing = Cell(TRUE, 1)
    /\ mqtt_pc = "store_is_playing"

\* C5: a distance in the upper tolerance band (DISTANCE_MAX < d <= BUFFER_MAX)
\* is treated as DISTANCE_MAX: is_playing, frequency = FREQ_MIN; a distance in
\* the lower band (BUFFER_MIN <= d < DISTANCE_MIN) is treated as DISTANCE_MIN:
\* is_playing, frequency = FREQ_MAX; the in-range branch is tried first, so
\* the boundary distances DISTANCE_MIN and DISTANCE_MAX take it.
C5_ToleranceBands ==
    DistanceHandled =>
        LET d == MsgValue
        IN  /\ (RLt(I(DISTANCE_MAX), d) /\ RLe(d, I(BUFFER_MAX))) =>
                  /\ band = "upper"
                  /\ is_playing
                  /\ current_frequency = I(FREQ_MIN)
                  /\ current_distance = I(DISTANCE_MAX)
            /\ (RLe(I(BUFFER_MIN), d) /\ RLt(d, I(DISTANCE_MIN))) =>
                  /\ band = "lower"
                  /\ is_playing
                  /\ current_frequency = I(FREQ_MAX)
                  /\ current_distance = I(DISTANCE_MIN)
            /\ InRange(d) => band = "in_range" /\ current_distance = d

\* A lower-band distance handled after an upper-band one (whose frequency the
\* engine still holds).
C5_LowerAfterUpper ==
    /\ DistanceHandled
    /\ MsgValue = I(BUFFER_MIN)
    /\ band = "lower"
    /\ current_frequency = I(FREQ_MAX)
    /\ ae_current_frequency = Cell(I(FREQ_MIN), 1)
    /\ mqtt_pc = "store_frequency"

\* C6: a finished audio callback has filled the buffer with exactly the
\* requested number of frames and no exception has left it; when producing
\* or copying the chunk failed, the buffer is all zeros.
C6_CallbackNeverRaises ==
    /\ ~cb_escaped
    /\ (cb_pc = "idle" /\ outdata # Unfilled) =>
          /\ outdata.len = frames
          /\ (cb_error # "none" => outdata.kind = "zeros")

\* A synthesis failure while the gate was open, with a frame count other than
\* the chunk size.
C6_FailureSilenced ==
    /\ cb_pc = "idle"
    /\ cb_error = "MemoryError"
    /\ frames # CHUNK_SIZE
    /\ outdata.kind = "zeros"
    /\ ae_is_playing.val

\* C7: a callback that read the gate as false, or the frequency as <= 0,
\* writes an all-zero buffer of the requested length; and until on_message has
\* handled a distance in a playing band, no buffer has a non-zero sample.
C7_GateClosed ==
    (/\ cb_pc = "produce" /\ cb_pc' = "idle"
     /\ (~cb_playing.val \/ ~RLt(I(0), cb_test_frequency.val)))
        => AllZero(outdata') /\ outdata'.len = frames

C7_SilentBeforeGate ==
    ~gate_opened => (outdata = Unfilled \/ AllZero(outdata))

C7_SilenceWhenNotPlaying == []C7_SilentBeforeGate /\ [][C7_GateClosed]_vars

\* A full-size silent buffer produced although the engine holds a positive
\* frequency and volume, because the gate is closed.
C7_SilentChunk ==
    /\ cb_pc = "idle"
    /\ frames = CHUNK_SIZE
    /\ outdata = GenerateSilence(CHUNK_DURATION)
    /\ cb_error = "none"
    /\ ~ae_is_playing.val
    /\ RLt(I(0), ae_current_frequency.val)
    /\ RLt(I(0), ae_current_volume.val)

\* C8: a message whose payload does not parse is dropped: the handler ends in
\* its except clause in the same step, the server's four globals and the
\* engine's triple are unchanged, no exception leaves the handler, and the
\* mqtt thread is back where it takes the next message.
C8_Dropped ==
    (Delivered /\ msg'.payload \in MalformedPayloads) =>
        /\ UNCHANGED <<serverVars, engineVars>>
        /\ outcome' = "dropped"
        /\ mqtt_pc' = "idle"
        /\ ~mqtt_escaped'

C8_MalformedDropped == [][C8_Dropped]_vars

\* A malformed message dropped after a distance message had opened the gate
\* and the engine had taken the update.
C8_DroppedWhilePlaying ==
    /\ outcome = "dropped"
    /\ n_messages = 2
    /\ msg.payload \in MalformedPayloads
    /\ is_playing
    /\ ae_is_playing = Cell(TRUE, 1)
    /\ mqtt_pc = "idle"

(***************************************************************************)
(* Properties of the sensing loop, checked under SensorSpec.               *)
(***************************************************************************)
Min(a, b) == IF a < b THEN a ELSE b

\* The last m elements of a sequence, in order.
LastOf(q, m) == SubSeq(q, Len(q) - m + 1, Len(q))

\* C1: after the k-th successful raw read, the deque holds the last
\* min(FILTER_WINDOW_SIZE, k) raw samples in arrival order, and the value
\* get_filtered_distance returned is their arithmetic mean.
C1_MovingAverage ==
    LET k == Len(reads)
        m == Min(FILTER_WINDOW_SIZE, k)
    IN  /\ Len(distance_buffer) <= FILTER_WINDOW_SIZE
        /\ distance_buffer = LastOf(reads, m)
        /\ distance # None =>
              /\ k >= 1
              /\ distance[1][1] * m = distance[1][2] * SumSeq(LastOf(reads, m))

\* More reads than the window holds, the evicted sample differing from the
\* newest, and a mean that is not a whole number.
C1_AfterEviction ==
    /\ Len(reads) > FILTER_WINDOW_SIZE
    /\ reads[1] # reads[Len(reads)]
    /\ distance # None
    /\ distance[1][2] = FILTER_WINDOW_SIZE
    /\ sensor_pc = "read_volume"

\* C9: at the end of a sensing cycle each sensor was read exactly once; when
\* either read failed nothing was published in the cycle; when both succeeded
\* exactly one sensors/distance message followed by exactly one sensors/volume
\* message was published; and the loop goes on to the next cycle.
C9_CycleEnd ==
    sensor_pc = "sleep" =>
        /\ distance_reads = 1
        /\ pot_reads = 1
        /\ (distance = None \/ volume = None) => published = <<>>
        /\ (distance # None /\ volume # None) =>
              /\ Len(published) = 2
              /\ published[1].topic = "sensors/distance"
              /\ published[1].payload.str = distance
              /\ published[2].topic = "sensors/volume"
              /\ published[2].payload.str = volume

C9_Continues == sensor_pc = "sleep" => sensor_pc' = "read_distance"

C9_PublishOnlyValid == []C9_CycleEnd /\ [][C9_Continues]_vars

\* A cycle whose distance read failed, after an earlier cycle had read a
\* distance, with the potentiometer read succeeding and nothing published.
C9_SkippedCycle ==
    /\ sensor_pc = "sleep"
    /\ n_cycles >= 1
    /\ reads # <<>>
    /\ distance = None
    /\ volume # None
    /\ published = <<>>

\* C10 as stated: every volume get_volume returns for a non-negative raw
\* reading lies within [0, 1].
C10_VolumeInUnitInterval ==
    volume # None => RLe(I(0), volume[1]) /\ RLe(volume[1], I(1))

\* C10 amended: for a raw reading 0 <= pot_value <= POT_FULL_SCALE the
\* volume get_volume returns lies within [0, 1].
C10_VolumeInUnitIntervalInScale ==
    (volume # None /\ pot_value[1] >= 0 /\ pot_value[1] <= POT_FULL_SCALE) =>
        RLe(I(0), volume[1]) /\ RLe(volume[1], I(1))

\* The full-scale reading gives volume 1.
C10_FullScale ==
    /\ pot_value = Some(POT_FULL_SCALE)
    /\ volume = Some(I(1))
    /\ sensor_pc = "publish"

(***************************************************************************)
(* C11: the ranges of the audio parameters, in the server's copy and in    *)
(* the engine's.                                                           *)
(***************************************************************************)
InUnit(x) == RLe(I(0), x) /\ RLe(x, I(1))

C11_FrequencyNonNegative ==
    /\ RLe(I(0), current_frequency)
    /\ RLe(I(0), ae_current_frequency.val)

\* C11 as stated: after any sequence of messages, in the server's copy and
\* in the engine's, frequency >= 0 and 0 <= volume <= 1.
C11_ParameterRanges ==
    /\ C11_FrequencyNonNegative
    /\ InUnit(current_volume)
    /\ InUnit(ae_current_volume.val)

\* A sensors/volume message whose numeric value lies outside [0, 1].
C11_VolumeOutOfUnit ==
    /\ Delivered
    /\ msg'.topic = "sensors/volume"
    /\ value' # None
    /\ ~InUnit(value'[1])

C11_ServerVolumeStays ==
    (InUnit(current_volume) /\ ~C11_VolumeOutOfUnit) => InUnit(current_volume')

C11_EngineVolumeFollows ==
    (InUnit(current_volume) /\ InUnit(ae_current_volume.val)) =>
        InUnit(ae_current_volume'.val)

\* C11 amended: frequency >= 0 holds in both copies in every state; the
\* server's volume leaves [0, 1] only in a step that delivers a
\* sensors/volume value outside [0, 1], and the engine's volume leaves
\* [0, 1] only after the server's has.
C11_RangesUnlessVolumeOutOfUnit ==
    /\ []C11_FrequencyNonNegative
    /\ [][C11_ServerVolumeStays]_vars
    /\ [][C11_EngineVolumeFollows]_vars

\* A volume of 0 received while a tone plays, and pushed to the engine.
C11_VolumeZeroPlaying ==
    /\ msg.topic = "sensors/volume"
    /\ mqtt_pc = "idle"
    /\ outcome = "handled"
    /\ current_volume = I(0)
    /\ ae_current_volume.val = I(0)
    /\ is_playing

(***************************************************************************)
(* C13: the engine's copy of the triple against the server's, once a       *)
(* sensor message has been handled.                                        *)
(***************************************************************************)
C13_SensorMessageHandled ==
    /\ mqtt_pc = "idle"
    /\ n_messages >= 1
    /\ msg.topic \in {"sensors/distance", "sensors/volume"}
    /\ value # None

\* C13: after a sensors/distance or sensors/volume message with a numeric
\* payload has been handled, the engine's (frequency, volume, is_playing)
\* equals the server's, also when the emit inside the handler failed.
C13_EngineEqualsServer ==
    C13_SensorMessageHandled =>
        /\ ae_current_frequency.val = current_frequency
        /\ ae_current_volume.val = current_volume
        /\ ae_is_playing.val = is_playing

\* The server plays after a distance whose emit failed; the engine is
\* still silent.
C13_StaleEngine ==
    /\ C13_SensorMessageHandled
    /\ outcome = "emit_failed"
    /\ is_playing
    /\ ~ae_is_playing.val

(***************************************************************************)
(* C18: what the sensors/volume and control/status branches leave alone.   *)
(***************************************************************************)
C18_VolumeFrame ==
    (Delivered /\ msg'.topic = "sensors/volume") =>
        UNCHANGED <<current_distance, current_frequency, is_playing>>

C18_StatusFrame ==
    (Delivered /\ msg'.topic = "control/status") =>
        UNCHANGED <<current_distance, current_volume, current_frequency,
                    is_playing>>

\* C18: a sensors/volume message changes only the volume (distance,
\* frequency and gate keep their values); a control/status message changes
\* none of distance, volume, frequency and gate.
C18_Frame == [][C18_VolumeFrame]_vars /\ [][C18_StatusFrame]_vars

\* A volume message that changed the volume while a tone of 640 Hz for the
\* distance 13.5 plays.
C18_VolumeChangedAlone ==
    /\ msg.topic = "sensors/volume"
    /\ value = Some(I(0))
    /\ current_volume = I(0)
    /\ current_distance = Rat(27, 2)
    /\ current_frequency = I(640)
    /\ is_playing

(***************************************************************************)
(* C19, C20: the server's gate against its frequency and stored distance.  *)
(***************************************************************************)
\* C19: in every state of the server is_playing is true exactly when
\* FREQ_MIN <= current_frequency <= FREQ_MAX, and false exactly when
\* current_frequency = 0.
C19_GateAgreesWithFrequency ==
    /\ is_playing <=>
          (RLe(I(FREQ_MIN), current_frequency) /\ RLe(current_frequency, I(FREQ_MAX)))
    /\ ~is_playing <=> (current_frequency = I(0))

\* The gate open at the lowest frequency, for a distance of the upper band,
\* after an earlier message.
C19_OpenAtFreqMin ==
    /\ is_playing
    /\ current_frequency = I(FREQ_MIN)
    /\ band = "upper"
    /\ n_messages = 2

\* C20: whenever is_playing is true the stored current_distance lies in
\* [DISTANCE_MIN, DISTANCE_MAX] and current_frequency is the in-range
\* mapping of that stored distance; a distance of a tolerance band is stored
\* as the clamped value, 25 for the upper band and 2 for the lower one.
C20_StoredDistanceMatches ==
    /\ is_playing =>
          LET d == current_distance
              f == current_frequency
              span == DISTANCE_MAX - DISTANCE_MIN
          IN  /\ InRange(d)
              /\ f[1] * span * d[2] =
                   f[2] * (FREQ_MIN * span * d[2]
                           + (FREQ_MAX - FREQ_MIN) * (DISTANCE_MAX * d[2] - d[1]))
    /\ (DistanceHandled /\ RLt(I(DISTANCE_MAX), MsgValue)
          /\ RLe(MsgValue, I(BUFFER_MAX))) => current_distance = I(25)
    /\ (DistanceHandled /\ RLe(I(BUFFER_MIN), MsgValue)
          /\ RLt(MsgValue, I(DISTANCE_MIN))) => current_distance = I(2)

\* The distance 27 of the upper band stored as 25 while the tone plays, and
\* kept through a later volume message.
C20_ClampedKept ==
    /\ msg.topic = "sensors/volume"
    /\ value # None
    /\ is_playing
    /\ current_distance = I(25)
    /\ current_frequency = I(FREQ_MIN)
    /\ ae_current_frequency.val = I(FREQ_MIN)

(***************************************************************************)
(* generate_tone and generate_silence called on their own, for arguments   *)
(* drawn from bounded sets.                                                *)
(***************************************************************************)
\* Durations in seconds: the chunk and display durations of the program, and
\* durations for which SAMPLE_RATE * duration is 1.764, 1.5, 2.5, 1, 0.441.
Durations ==
    {CHUNK_DURATION, <<1, 50>>, <<1, 25000>>, <<1, 29400>>, <<1, 17640>>,
     <<1, 44100>>, <<1, 100000>>}

Frequencies == {I(0), I(FREQ_MIN), I(440), I(640), I(FREQ_MAX)}

Volumes == {I(0), <<1, 2>>, I(1)}

Generate(frequency, vol, duration) ==
    /\ gen_frequency' = frequency
    /\ gen_volume' = vol
    /\ gen_duration' = duration
    /\ gen_tone' = GenerateTone(frequency, vol, duration)
    /\ gen_silence' = GenerateSilence(duration)
    /\ UNCHANGED <<serverVars, handlerVars, engineVars, callbackVars, sensorVars,
                   emitted, broadcast_alive, streamVars, procVars, mockVars>>

GenNext ==
    \E frequency \in Frequencies, vol \in Volumes, duration \in Durations :
        Generate(frequency, vol, duration)

GenSpec == Init /\ [][GenNext]_vars

(***************************************************************************)
(* C16: the length of the generated buffers.                               *)
(***************************************************************************)
\* Python's round of a non-negative rational: to the nearest integer, a tie
\* to the even one.
Round(r) ==
    LET q == r[1] \div r[2]
        twice == 2 * (r[1] % r[2])
    IN  IF twice < r[2] THEN q
        ELSE IF twice > r[2] THEN q + 1
        ELSE IF q % 2 = 0 THEN q ELSE q + 1

C16_Generated == gen_tone.kind = "tone" /\ gen_silence.kind = "zeros"

\* C16 as stated: for every duration > 0 the buffers of generate_tone and
\* generate_silence have exactly round(SAMPLE_RATE * duration) samples.
C16_LengthIsRounded ==
    C16_Generated =>
        /\ gen_tone.len = Round(RMul(I(SAMPLE_RATE), gen_duration))
        /\ gen_silence.len = Round(RMul(I(SAMPLE_RATE), gen_duration))

\* C16 amended: the two buffers have the same length n, the product
\* SAMPLE_RATE * duration truncated: n <= SAMPLE_RATE * duration < n + 1, so
\* n is round(SAMPLE_RATE * duration) or one less; for the durations the
\* program uses (0.05 and 0.02) n is round(SAMPLE_RATE * duration).
C16_LengthIsTruncated ==
    C16_Generated =>
        LET n == gen_tone.len
            product == RMul(I(SAMPLE_RATE), gen_duration)
        IN  /\ gen_silence.len = n
            /\ RLe(I(n), product)
            /\ RLt(product, I(n + 1))
            /\ n \in {Round(product), Round(product) - 1}
            /\ gen_duration \in {CHUNK_DURATION, <<1, 50>>} => n = Round(product)

\* A duration of 0.00004 s: the product is 1.764 and both buffers hold one
\* sample.
C16_OneSample ==
    /\ gen_duration = <<1, 25000>>
    /\ gen_tone.kind = "tone"
    /\ gen_tone.len = 1
    /\ gen_silence.len = 1

(***************************************************************************)
(* test_server.py: the loop of generate_mock_data.                         *)
(***************************************************************************)
MOCK_TIME_STEP == <<1, 20>>

MaxMockSteps == 7

\* Values of 15 + 12 * math.sin(mock_time * 3.0), which lies within [3, 27],
\* and of 0.5 + 0.5 * abs(math.sin(mock_time * 2.0)), within [0.5, 1].
MockDistances == {I(4), <<27, 2>>, I(25), <<51, 2>>, <<269, 10>>}

MockVolumes == {<<1, 2>>, <<3, 4>>, I(1)}

\* The if/else of generate_mock_data on the distance.
MockMapDistance(d) ==
    IF RLe(I(DISTANCE_MIN), d) /\ RLe(d, I(DISTANCE_MAX))
    THEN LET normalized ==
                 RDiv(RSub(d, I(DISTANCE_MIN)), I(DISTANCE_MAX - DISTANCE_MIN))
         IN  [frequency |-> RAdd(I(FREQ_MIN),
                                 RMul(I(FREQ_MAX - FREQ_MIN), RSub(I(1), normalized))),
              playing |-> TRUE]
    ELSE [frequency |-> I(0), playing |-> FALSE]

\* One iteration of the while loop, up to its sleep.
GenerateMockData(d, v) ==
    /\ RLt(mock_time, RMul(I(MaxMockSteps), MOCK_TIME_STEP))
    /\ mock_time' = RAdd(mock_time, MOCK_TIME_STEP)
    /\ LET m == MockMapDistance(d)
       IN  mock_audio_state' = Some([frequency |-> m.frequency, volume |-> v,
                                     distance |-> d, playing |-> m.playing])
    /\ mock_emitted' = <<"audio_state", "sensor_update", "waveform_data">>
    /\ UNCHANGED <<serverVars, handlerVars, engineVars, callbackVars, sensorVars,
                   emitted, broadcast_alive, streamVars, procVars, genVars>>

MockNext == \E d \in MockDistances, v \in MockVolumes : GenerateMockData(d, v)

MockSpec == Init /\ [][MockNext]_vars

(***************************************************************************)
(* C17: the mock server's mapping against the real server's.               *)
(***************************************************************************)
\* C17: for every distance the mock server's mapping from distance to
\* (frequency, is_playing) gives what the real server's mapping gives.
C17_MockMatchesServer ==
    mock_audio_state # None =>
        LET s == mock_audio_state[1]
            m == MapDistance(s.distance)
        IN  /\ s.frequency = m.frequency
            /\ s.playing = m.playing

\* The mock server silent at 25.5 cm, where the real server plays FREQ_MIN.
C17_MockSilentInBand ==
    /\ mock_audio_state # None
    /\ mock_audio_state[1].distance = <<51, 2>>
    /\ ~mock_audio_state[1].playing
    /\ mock_audio_state[1].frequency = I(0)
    /\ MapDistance(<<51, 2>>).playing
    /\ MapDistance(<<51, 2>>).frequency = I(FREQ_MIN)

(***************************************************************************)
(* The server process from its start to its exit: init_audio, the          *)
(* broadcast thread, dashboard connections, bus messages, the stop of the  *)
(* stream, and the interrupt of the main thread.                           *)
(***************************************************************************)
\* Bound on the number of calls of stop_audio_stream in one behaviour.
MaxStopCalls == 2

ServerPayloads == { <<"1", "3", ".", "5">>, <<"2", "8">>, <<"a", "b", "c">> }

\* The events one pass of the loop of background_broadcast emits, in order.
TickEventsNoWaveform == <<"sensor_update">>

TickEvents == <<"sensor_update", "waveform_data">>

\* The module as imported, before init_audio has run.
ServerInit ==
    /\ InitData
    /\ broadcast_alive = FALSE
    /\ audio_stream = "None"
    /\ stream_state = "none"
    /\ device_calls = <<>>
    /\ stop_calls = 0
    /\ server_pc = "init_audio"
    /\ mqtt_link = "connected"

\* init_audio, then the start of the broadcast thread and socketio.run.
\* sd.OutputStream(...) may raise, leaving audio_stream None; start() may
\* raise after audio_stream has been assigned.
StartAudioStream(result) ==
    /\ server_pc = "init_audio"
    /\ CASE result = "ok" ->
              /\ audio_stream' = "stream"
              /\ stream_state' = "active"
              /\ device_calls' = Append(device_calls, "start")
         [] result = "open_fails" ->
              UNCHANGED <<audio_stream, stream_state, device_calls>>
         [] result = "start_fails" ->
              /\ audio_stream' = "stream"
              /\ stream_state' = "open"
              /\ device_calls' = Append(device_calls, "start")
    /\ broadcast_alive' = TRUE
    /\ server_pc' = "running"
    /\ UNCHANGED <<serverVars, handlerVars, engineVars, callbackVars, sensorVars,
                   emitted, stop_calls, mqtt_link, genVars, mockVars>>

\* stop_audio_stream (cleanup_audio): nothing in it resets audio_stream.
StopAudioStream ==
    /\ server_pc # "exited"
    /\ stop_calls < MaxStopCalls
    /\ stop_calls' = stop_calls + 1
    /\ IF audio_stream # "None"
       THEN /\ device_calls' = device_calls \o <<"stop", "close">>
            /\ stream_state' = "closed"
       ELSE UNCHANGED <<device_calls, stream_state>>
    /\ UNCHANGED <<serverVars, handlerVars, engineVars, callbackVars, sensorVars,
                   emitted, broadcast_alive, audio_stream, procVars, genVars,
                   mockVars>>

\* One pass of the loop of background_broadcast. Nothing in the loop catches
\* an exception of socketio.emit: a failing emit ends the thread.
BroadcastTick(result) ==
    /\ server_pc = "running"
    /\ broadcast_alive
    /\ CASE result = "ok" ->
              /\ emitted' = Emission("tick", TickEvents)
              /\ UNCHANGED broadcast_alive
         [] result = "sensor_update_fails" ->
              /\ emitted' = Emission("tick", <<>>)
              /\ broadcast_alive' = FALSE
         [] result = "waveform_data_fails" ->
              /\ emitted' = Emission("tick", SubSeq(TickEvents, 1, Len(TickEvents) - 1))
              /\ broadcast_alive' = FALSE
    /\ UNCHANGED <<serverVars, handlerVars, engineVars, callbackVars, sensorVars,
                   streamVars, procVars, genVars, mockVars>>

\* handle_connect: broadcast_state() for a new dashboard client.
HandleConnect(result) ==
    /\ server_pc = "running"
    /\ emitted' = IF result = "ok" THEN Emission("connect", <<"audio_state">>)
                  ELSE Emission("connect", <<>>)
    /\ UNCHANGED <<serverVars, handlerVars, engineVars, callbackVars, sensorVars,
                   restVars>>

\* KeyboardInterrupt ends socketio.run and with it the process: the daemon
\* threads (mqtt, broadcast) end wherever they are. No code stops or closes
\* the stream, and none disconnects the mqtt client.
ServerShutdown ==
    /\ server_pc = "running"
    /\ server_pc' = "exited"
    /\ broadcast_alive' = FALSE
    /\ UNCHANGED <<serverVars, handlerVars, engineVars, callbackVars, sensorVars,
                   emitted, streamVars, mqtt_link, genVars, mockVars>>

ServerNext ==
    \/ \E result \in {"ok", "open_fails", "start_fails"} : StartAudioStream(result)
    \/ StopAudioStream
    \/ \E t \in Topics, p \in ServerPayloads, e \in {"ok", "RuntimeError"} :
          OnMessage(t, p, e)
    \/ StoreFrequency
    \/ StoreVolume
    \/ StoreIsPlaying
    \/ \E result \in {"ok", "sensor_update_fails", "waveform_data_fails"} :
          BroadcastTick(result)
    \/ \E result \in {"ok", "RuntimeError"} : HandleConnect(result)
    \/ ServerShutdown

ServerSpec == ServerInit /\ [][ServerNext]_vars

(***************************************************************************)
(* C12: repeated calls of stop_audio_stream.                               *)
(***************************************************************************)
DeviceCallCount(call) ==
    Cardinality({i \in DOMAIN device_calls : device_calls[i] = call})

\* C12: after stop_audio_stream the stream is released, and calling it again,
\* any number of times, also after a failed or never-performed start,
\* performs no further stop or close on the device.
C12_StopIdempotent ==
    /\ DeviceCallCount("stop") >= 1 => stream_state = "closed"
    /\ (stop_calls >= 1 /\ audio_stream = "None") => device_calls = <<>>
    /\ DeviceCallCount("stop") <= 1
    /\ DeviceCallCount("close") <= 1

\* Two calls of stop_audio_stream after a start: the second one stops and
\* closes the closed stream again.
C12_StoppedTwice ==
    /\ stop_calls = 2
    /\ audio_stream = "stream"
    /\ device_calls = <<"start", "stop", "close", "stop", "close">>

(***************************************************************************)
(* C15: the state the server process exits in.                             *)
(***************************************************************************)
RECURSIVE StopBeforeClose(_)
StopBeforeClose(calls) ==
    IF calls = <<>> THEN TRUE
    ELSE /\ (calls[Len(calls)] = "close" =>
                Len(calls) >= 2 /\ calls[Len(calls) - 1] = "stop")
         /\ StopBeforeClose(SubSeq(calls, 1, Len(calls) - 1))

\* C15: after the shutdown signal the broadcast loop has ended, the stream
\* was stopped before it was closed, and neither the transport connection
\* nor the audio device is left open: the transport is disconnected and the
\* stream, if one was opened, is stopped and closed.
C15_CleanShutdown ==
    server_pc = "exited" =>
        /\ ~broadcast_alive
        /\ StopBeforeClose(device_calls)
        /\ (audio_stream = "None" \/ stream_state = "closed")
        /\ mqtt_link = "disconnected"

\* The process gone with the stream still active: stop_audio_stream was
\* never called.
C15_ExitedStreamActive ==
    /\ server_pc = "exited"
    /\ stream_state = "active"
    /\ stop_calls = 0
    /\ mqtt_link = "connected"
    /\ n_messages >= 1

(***************************************************************************)
(* C14: where the dashboard events come from.                              *)
(***************************************************************************)
EventSet(events) == {events[i] : i \in DOMAIN events}

\* C14 as stated: every dashboard event is emitted by a broadcast tick or by
\* a new client connection, each tick emits audio_state, sensor_update and
\* waveform_data, and a sensor event causes no emission.
C14_TimerDriven ==
    /\ emitted.by \in {"none", "tick", "connect"}
    /\ (emitted.by = "tick" /\ broadcast_alive) =>
          EventSet(emitted.events) = {"audio_state", "sensor_update", "waveform_data"}

C14_Sources ==
    /\ \A event \in EventSet(emitted.events) :
          /\ event \in {"sensor_update", "waveform_data"} => emitted.by = "tick"
          /\ event = "audio_state" => emitted.by \in {"on_message", "connect"}
    /\ (emitted.by = "tick" /\ broadcast_alive) =>
          emitted.events = <<"sensor_update", "waveform_data">>
    /\ emitted.by = "connect" => EventSet(emitted.events) \subseteq {"audio_state"}

C14_MessageEmits ==
    (Delivered /\ outcome' = "handled") =>
        emitted' = Emission("on_message", <<"audio_state">>)

\* C14 amended: sensor_update and waveform_data are emitted only by the
\* broadcast tick, and a tick that completes emits exactly these two;
\* audio_state is emitted only by on_message and by a client connection, and
\* every message with a numeric payload whose emit succeeds emits it.
C14_EmissionSources == []C14_Sources /\ [][C14_MessageEmits]_vars

\* A control/status message with a numeric payload emitted audio_state
\* while the broadcast thread runs.
C14_StatusMessageEmitted ==
    /\ emitted = Emission("on_message", <<"audio_state">>)
    /\ msg.topic = "control/status"
    /\ broadcast_alive
    /\ server_pc = "running"

===========================================================================
